---- MODULE Spec2Model ----
(***************************************************************************)
(* Model of src/main.py: an OpenAI-compatible reverse proxy that rotates   *)
(* over a pool of OpenRouter API keys.  Every inbound request is handled   *)
(* by one coroutine; the actions below are the stretches of a handler      *)
(* between two suspension points (await).                                  *)
(***************************************************************************)
EXTENDS Integers, Sequences, FiniteSets, TLC

\* ------------------------------------------------------------------ bounds
\* largest number of configured keys
MaxKeys == 2
\* number of inbound requests that may be in progress at the same time
MaxRequests == 2
\* longest upstream byte stream, in chunks
MaxChunks == 2

Requests == 1..MaxRequests

\* ------------------------------------------------------------------ inputs
\* HTTP statuses an upstream response may carry
Statuses == {200, 201, 429, 404}
\* the chunks of an upstream byte stream, each named by its position in it
Chunks == 1..MaxChunks
\* Authorization header values, given as the list authorization.split() yields
\* (None when the header is absent)
None == <<"None">>
Schemes == {"Bearer", "bearer", "Basic"}
Tokens == {"abc", "xyz"}
Headers ==
  {None, <<>>}
    \cup {<<s>> : s \in Schemes}
    \cup {<<s, t>> : s \in Schemes, t \in Tokens}
    \cup {<<"Bearer", t, "junk">> : t \in Tokens}
\* values of ALLOWED_AUTH_TOKENS the process may be started with
TokenSets == {{}, {"abc"}}
\* inbound request bodies: text that is no JSON, or a JSON object with or
\* without the "stream" field
RawBodies == {"malformed", "stream_true", "stream_false", "stream_absent"}
\* bodies of a buffered upstream response: one JSON value in the compact
\* form json.dumps(separators=(",", ":")) gives it and in a form with
\* other whitespace, a second JSON value in compact form, and text that is
\* no JSON
UpstreamBodies == {"json_compact", "json_spaced", "json_other", "not_json"}
\* what reading the body of a streamed error response does
ErrorBodyReads == {"readable", "read_error", "undecodable"}

VARIABLES
  NUM_KEYS,            \* number of configured keys (line 23)
  current_key_index,   \* global round-robin cursor (line 47)
  key_lock,            \* holder of key_lock, 0 when free (line 48)
  ALLOWED_AUTH_TOKENS, \* accepted bearer tokens (lines 27-33)
  pc,                  \* where each request's coroutine is suspended
  endpoint,            \* route of the request
  authorization,       \* verify_token's parameter
  request_data,        \* parsed body of a chat request
  idx,                 \* get_next_key_index's local
  start_key_index,     \* chat_completions' locals
  i,
  last_error_status,
  last_error_detail,
  calls,               \* key index of every upstream call the request made
  last,                \* upstream outcome of the request's latest call
  branch,              \* status branch the latest attempt entered
  open_handles,        \* streamed upstream responses opened and not closed
  result,              \* what the caller has been answered
  gen,                 \* state of stream_response_generator
  upstream,            \* chunks the upstream stream has produced
  delivered,           \* chunks yielded to the caller
  prev_start,          \* index returned by the latest reservation, -1 if none
  recent_starts,       \* the last NUM_KEYS indexes reservations returned
  reservations,        \* completed reservations, counted modulo NUM_KEYS
  payloads,            \* json= payload and stream mode of every chat call
  closes               \* aclose() calls on the response handed to the relay

\* fixed when the process starts
config == <<NUM_KEYS, ALLOWED_AUTH_TOKENS>>

KeyIndexes == 0..(NUM_KEYS - 1)

\* what the run has done so far, kept for the properties
history == <<recent_starts, reservations, payloads, closes>>

vars ==
  <<current_key_index, key_lock, config, pc, endpoint,
    authorization, request_data, idx, start_key_index, i, last_error_status,
    last_error_detail, calls, last, branch, open_handles, result, gen,
    upstream, delivered, prev_start, history>>

\* ------------------------------------------------------------------ values
NoDetail == [msg |-> "none", key |-> -1, status |-> 0, exc |-> "none"]
Detail(msg, key, status, exc) ==
  [msg |-> msg, key |-> key, status |-> status, exc |-> exc]
\* locals of chat_completions before the loop
DefaultErrorStatus == 500
DefaultErrorDetail == Detail("All API keys failed.", -1, 500, "none")

NoOutcome == [t |-> "none", status |-> 0, body |-> "none"]
TransportFailure == [t |-> "transport", status |-> 0, body |-> "none"]
Response(s, b) == [t |-> "resp", status |-> s, body |-> b]

NoResult == [kind |-> "none", status |-> 0, detail |-> NoDetail, body |-> "none"]
Completed(status, body) ==
  [kind |-> "Completed", status |-> status, detail |-> NoDetail, body |-> body]
HTTPException(status, detail) ==
  [kind |-> "Error", status |-> status, detail |-> detail, body |-> "none"]

\* ------------------------------------------------------- pure functions
\* str.lower() on the schemes of the model
Lower(s) ==
  CASE s = "Bearer" -> "bearer"
    [] s = "BEARER" -> "bearer"
    [] s = "Basic" -> "basic"
    [] OTHER -> s

\* verify_token with the 403 of an unknown token turned into a pass
verify_token_any_token(auth, allowed) ==
  IF allowed = {} THEN 0
  ELSE IF auth = None THEN 401
  ELSE IF Len(auth) # 2 THEN 401
  ELSE IF Lower(auth[1]) # "bearer" THEN 401
  ELSE 0

\* verify_token: the status it raises, 0 when it returns normally
verify_token(auth, allowed) ==
  IF allowed = {} THEN 0
  ELSE IF auth = None THEN 401
  ELSE IF Len(auth) # 2 THEN 401
  ELSE IF Lower(auth[1]) # "bearer" THEN 401
  ELSE IF auth[2] \notin allowed THEN 403
  ELSE 0

verify_token_detail(auth, allowed) ==
  IF auth = None THEN "Authorization header missing"
  ELSE IF Len(auth) # 2 THEN "Invalid authorization header format"
  ELSE IF Lower(auth[1]) # "bearer" THEN "Invalid authentication scheme"
  ELSE "Invalid authentication token"

\* request.json(): TRUE when the body parses
BodyParses(raw) == raw # "malformed"
\* request_data.get("stream", False)
IsStreaming(data) == data = "stream_true"

\* a cursor that does not advance
NextIndexStuck(c) == c % NUM_KEYS

\* a cursor that advances by two positions
NextIndexByTwo(c) == (c + 2) % NUM_KEYS

\* get_next_key_index: the cursor after the advance
NextIndex(c) == (c + 1) % NUM_KEYS

\* every attempt on the key the dispatch started with
KeyIndexNoOffset(start, n) == start % NUM_KEYS

\* key tried by attempt n of a dispatch that reserved start
KeyIndex(start, n) == (start + n) % NUM_KEYS

\* api_response.json(): the parsed value, "error" when json() raises
JsonParse(body) ==
  CASE body = "json_compact" -> "value_x"
    [] body = "json_spaced" -> "value_x"
    [] body = "json_other" -> "value_y"
    [] OTHER -> "error"
\* a rendering that does not depend on the value
JsonRenderFixed(value) == "json_compact"

\* JSONResponse(content=...).body: the compact rendering of a value
JsonRender(value) ==
  CASE value = "value_x" -> "json_compact"
    [] value = "value_y" -> "json_other"
    [] OTHER -> "none"

\* every 2xx status taken for a success
BranchAny2xx(status) ==
  IF 200 <= status /\ status <= 299 THEN "Success"
  ELSE IF status = 429 THEN "RateLimited"
  ELSE "UpstreamError"

\* the if / elif / else over api_response.status_code
Branch(status) ==
  IF status = 200 THEN "Success"
  ELSE IF status = 429 THEN "RateLimited"
  ELSE "UpstreamError"


\* upstream outcomes of one chat attempt: client.send / client.post raises
\* httpx.RequestError, or a response arrives.  A buffered response carries
\* its body; of a streamed one only the status is known, and reading the
\* body of an error response may fail.
Outcomes(stream) ==
  {TransportFailure}
    \cup (IF stream
          THEN {Response(200, "stream")}
                 \cup {Response(s, "readable") : s \in Statuses \ {200}}
                 \cup {Response(s, b) : s \in {404, 429}, b \in ErrorBodyReads}
          ELSE {Response(200, b) : b \in UpstreamBodies}
                 \cup {Response(s, "error_text") : s \in Statuses \ {200}})

\* the body of the try statement of attempt n (0-based) with key `key`:
\*   exit    how the body is left: "return", "fallthrough" (end of the body
\*           reached), "RequestError" or "Exception" (an exception of that
\*           except clause is raised, HTTPException included)
\*   status, detail   last_error_status / last_error_detail when the body
\*           assigned them before it was left (set = TRUE)
\*   opened  1 when a streamed response is left open
TryBody(stream, key, n, o) ==
  LET leave(exit, exc, set, status, detail, opened, body) ==
        [exit |-> exit, exc |-> exc, set |-> set, status |-> status,
         detail |-> detail, opened |-> opened, body |-> body]
  IN
  IF o.t = "transport"
  THEN leave("RequestError", "ConnectError", FALSE, 0, NoDetail, 0, "none")
  ELSE
    CASE Branch(o.status) = "Success" ->
           IF stream
           THEN leave("return", "none", FALSE, 0, NoDetail, 1, "stream")
           ELSE IF JsonParse(o.body) = "error"
           THEN leave("Exception", "JSONDecodeError", FALSE, 0, NoDetail, 0, "none")
           ELSE leave("return", "none", FALSE, 0, NoDetail, 0,
                      JsonRender(JsonParse(o.body)))
      [] Branch(o.status) = "RateLimited" ->
           leave("fallthrough", "none", TRUE, 429,
                 Detail("Rate limit exceeded", key, 429, "none"), 0, "none")
      [] OTHER ->
           IF stream /\ o.body = "read_error"
           THEN leave("RequestError", "ReadError", FALSE, 0, NoDetail, 1, "none")
           ELSE IF stream /\ o.body = "undecodable"
           THEN leave("Exception", "UnicodeDecodeError", FALSE, 0, NoDetail, 1, "none")
           ELSE leave(IF n = NUM_KEYS - 1 THEN "Exception" ELSE "fallthrough",
                      IF n = NUM_KEYS - 1 THEN "HTTPException" ELSE "none",
                      TRUE, o.status,
                      Detail("Error with key index", key, o.status, "none"),
                      0, "none")

\* a return that does not leave the loop before the last key
NextOfNoShortCircuit(exit, lastKey) ==
  CASE exit = "return" /\ lastKey -> "return"
    [] lastKey -> "raise"
    [] OTHER -> "continue"

\* where a loop iteration goes once the try statement is left: a return
\* leaves the handler; anything else goes to the next key, or raises to the
\* caller when this was the last key
NextOf(exit, lastKey) ==
  CASE exit = "return" -> "return"
    [] lastKey -> "raise"
    [] OTHER -> "continue"

\* one loop iteration after the upstream call: the try body, then the
\* except clause it lands in (or, past the last key, line 253).
\*   next          "return", "raise" or "continue"
\*   les, led      last_error_status / last_error_detail afterwards
\*   result        the response or HTTPException that leaves the handler
Iteration(stream, key, n, o, les, led) ==
  LET t == TryBody(stream, key, n, o)
      next == NextOf(t.exit, n = NUM_KEYS - 1)
      status ==
        CASE t.exit = "return" -> les
          [] t.exit = "fallthrough" -> t.status
          [] t.exit = "RequestError" -> 503
          [] OTHER -> 500
      detail ==
        CASE t.exit = "return" -> led
          [] t.exit = "fallthrough" -> t.detail
          [] t.exit = "RequestError" -> Detail("HTTPX Request Error", key, 503, t.exc)
          [] OTHER -> Detail("Unexpected error processing request", key, 500, t.exc)
  IN
  [next |-> next, les |-> status, led |-> detail, opened |-> t.opened,
   result |->
     CASE next = "return" -> Completed(o.status, t.body)
       [] next = "raise" -> HTTPException(status, detail)
       [] OTHER -> NoResult]

\* outcomes of the upstream call of get_models
ModelsOutcomes ==
  {TransportFailure}
    \cup {Response(200, b) : b \in UpstreamBodies}
    \cup {Response(s, "json_compact") : s \in Statuses \ {200}}

\* get_models on the key the cursor points at
ModelsKeyRotating == current_key_index

\* key used by get_models
ModelsKey == 0

\* response.raise_for_status(): TRUE when it raises
RaisesForStatus(status) == ~(200 <= status /\ status <= 299)

\* get_models after the upstream call
ModelsResult(o) ==
  IF o.t = "transport"
  THEN HTTPException(503, Detail("HTTPX Request Error fetching models", -1, 503, "RequestError"))
  ELSE IF RaisesForStatus(o.status)
  THEN HTTPException(o.status, Detail("Error fetching models", -1, o.status, "HTTPStatusError"))
  ELSE IF JsonParse(o.body) = "error"
  THEN HTTPException(500, Detail("Unexpected error fetching models", -1, 500, "JSONDecodeError"))
  ELSE Completed(o.status, JsonRender(JsonParse(o.body)))

\* a payload that loses its "stream" field after the first attempt
SentStreamFieldDropped(data, n) ==
  [payload |-> IF n = 0 THEN data ELSE "stream_absent",
   stream |-> IsStreaming(data)]

\* what an attempt sends upstream: the parsed body as the json= payload, in
\* the mode is_streaming selected; n is the attempt's number
Sent(data, n) == [payload |-> data, stream |-> IsStreaming(data)]

\* a generator that loses every chunk after the first
YieldedFirstOnly(sent, chunk) == IF sent = <<>> THEN <<chunk>> ELSE sent

\* what the generator hands to the caller for one upstream chunk
Yielded(sent, chunk) == Append(sent, chunk)

\* ------------------------------------------------------------------ state
TypeOK ==
  /\ NUM_KEYS \in 1..MaxKeys
  /\ current_key_index \in KeyIndexes
  /\ key_lock \in {0} \cup Requests
  /\ ALLOWED_AUTH_TOKENS \in TokenSets
  /\ pc \in [Requests -> {"idle", "verify", "parse", "reserve", "cs_read",
                          "cs_write", "attempt", "await_upstream", "relay",
                          "models", "await_models", "done"}]
  /\ endpoint \in [Requests -> {"none", "chat", "models", "root"}]
  /\ authorization \in [Requests -> Headers]
  /\ request_data \in [Requests -> RawBodies \cup {"none"}]
  /\ idx \in [Requests -> KeyIndexes \cup {-1}]
  /\ start_key_index \in [Requests -> KeyIndexes \cup {-1}]
  /\ i \in [Requests -> KeyIndexes]
  /\ last_error_status \in [Requests -> Nat]
  /\ calls \in [Requests -> Seq(KeyIndexes)]
  /\ branch \in [Requests -> {"none", "Success", "RateLimited", "UpstreamError",
                              "TransportError"}]
  /\ open_handles \in [Requests -> 0..NUM_KEYS]
  /\ gen \in [Requests -> {"none", "created", "suspended", "finished", "failed",
                           "cancelled", "dropped"}]
  /\ upstream \in [Requests -> Seq(Chunks)]
  /\ delivered \in [Requests -> Seq(Chunks)]
  /\ prev_start \in KeyIndexes \cup {-1}
  /\ recent_starts \in Seq(KeyIndexes) /\ Len(recent_starts) <= NUM_KEYS
  /\ reservations \in KeyIndexes
  /\ payloads \in [Requests -> Seq([payload : RawBodies, stream : BOOLEAN])]
  /\ closes \in [Requests -> Nat]

Init ==
  /\ NUM_KEYS \in 1..MaxKeys
  /\ current_key_index = 0
  /\ key_lock = 0
  /\ ALLOWED_AUTH_TOKENS \in TokenSets
  /\ pc = [r \in Requests |-> "idle"]
  /\ endpoint = [r \in Requests |-> "none"]
  /\ authorization = [r \in Requests |-> None]
  /\ request_data = [r \in Requests |-> "none"]
  /\ idx = [r \in Requests |-> -1]
  /\ start_key_index = [r \in Requests |-> -1]
  /\ i = [r \in Requests |-> 0]
  /\ last_error_status = [r \in Requests |-> DefaultErrorStatus]
  /\ last_error_detail = [r \in Requests |-> DefaultErrorDetail]
  /\ calls = [r \in Requests |-> <<>>]
  /\ last = [r \in Requests |-> NoOutcome]
  /\ branch = [r \in Requests |-> "none"]
  /\ open_handles = [r \in Requests |-> 0]
  /\ result = [r \in Requests |-> NoResult]
  /\ gen = [r \in Requests |-> "none"]
  /\ upstream = [r \in Requests |-> <<>>]
  /\ delivered = [r \in Requests |-> <<>>]
  /\ prev_start = -1
  /\ recent_starts = <<>>
  /\ reservations = 0
  /\ payloads = [r \in Requests |-> <<>>]
  /\ closes = [r \in Requests |-> 0]


\* ---------------------------------------------------------------- actions
\* GET /: read_root answers without suspending
ReadRoot(r) ==
  /\ pc[r] = "idle"
  /\ pc' = [pc EXCEPT ![r] = "done"]
  /\ endpoint' = [endpoint EXCEPT ![r] = "root"]
  /\ result' = [result EXCEPT ![r] = Completed(200, "running")]
  /\ UNCHANGED <<current_key_index, key_lock, config,
                 authorization, request_data, idx, start_key_index, i,
                 last_error_status, last_error_detail, calls, last, branch,
                 open_handles, gen, upstream, delivered, prev_start, history>>

\* a request for one of the two API endpoints arrives with header h
Receive(r, ep, h) ==
  /\ pc[r] = "idle"
  /\ pc' = [pc EXCEPT ![r] = "verify"]
  /\ endpoint' = [endpoint EXCEPT ![r] = ep]
  /\ authorization' = [authorization EXCEPT ![r] = h]
  /\ UNCHANGED <<current_key_index, key_lock, config,
                 request_data, idx, start_key_index, i, last_error_status,
                 last_error_detail, calls, last, branch, open_handles, result,
                 gen, upstream, delivered, prev_start, history>>

\* the verify_token dependency runs before the handler
VerifyToken(r) ==
  LET s == verify_token(authorization[r], ALLOWED_AUTH_TOKENS) IN
  /\ pc[r] = "verify"
  /\ authorization' = [authorization EXCEPT ![r] = None]
  /\ IF s # 0
     THEN /\ pc' = [pc EXCEPT ![r] = "done"]
          /\ result' = [result EXCEPT ![r] =
               HTTPException(s,
                 Detail(verify_token_detail(authorization[r], ALLOWED_AUTH_TOKENS),
                        -1, s, "none"))]
     ELSE /\ pc' = [pc EXCEPT ![r] =
               IF endpoint[r] = "chat" THEN "parse" ELSE "models"]
          /\ UNCHANGED result
  /\ UNCHANGED <<current_key_index, key_lock, config, endpoint,
                 request_data, idx, start_key_index, i, last_error_status,
                 last_error_detail, calls, last, branch, open_handles, gen,
                 upstream, delivered, prev_start, history>>

\* request.json() awaited after the start index was reserved: a malformed
\* body is rejected with the cursor already advanced
ParseBodyAfterReserve(r, raw) ==
  /\ pc[r] = "parse"
  /\ IF BodyParses(raw)
     THEN /\ request_data' = [request_data EXCEPT ![r] = raw]
          /\ pc' = [pc EXCEPT ![r] = "reserve"]
          /\ UNCHANGED <<result, current_key_index>>
     ELSE /\ pc' = [pc EXCEPT ![r] = "done"]
          /\ current_key_index' = (current_key_index + 1) % NUM_KEYS
          /\ result' = [result EXCEPT ![r] =
               HTTPException(400, Detail("Invalid JSON body", -1, 400, "none"))]
          /\ UNCHANGED request_data
  /\ UNCHANGED <<key_lock, config, endpoint,
                 authorization, idx, start_key_index, i, last_error_status,
                 last_error_detail, calls, last, branch, open_handles, gen,
                 upstream, delivered, prev_start, history>>

\* await request.json() on a body raw
ParseBody(r, raw) ==
  /\ pc[r] = "parse"
  /\ IF BodyParses(raw)
     THEN /\ request_data' = [request_data EXCEPT ![r] = raw]
          /\ pc' = [pc EXCEPT ![r] = "reserve"]
          /\ UNCHANGED result
     ELSE /\ pc' = [pc EXCEPT ![r] = "done"]
          /\ result' = [result EXCEPT ![r] =
               HTTPException(400, Detail("Invalid JSON body", -1, 400, "none"))]
          /\ UNCHANGED request_data
  /\ UNCHANGED <<current_key_index, key_lock, config, endpoint,
                 authorization, idx, start_key_index, i, last_error_status,
                 last_error_detail, calls, last, branch, open_handles, gen,
                 upstream, delivered, prev_start, history>>

\* the critical section entered without waiting for the lock
AcquireLockUnguarded(r) ==
  /\ pc[r] = "reserve"
  /\ key_lock' = r
  /\ pc' = [pc EXCEPT ![r] = "cs_read"]
  /\ UNCHANGED <<current_key_index, config, endpoint,
                 authorization, request_data, idx, start_key_index, i,
                 last_error_status, last_error_detail, calls, last, branch,
                 open_handles, result, gen, upstream, delivered, prev_start,
                 history>>

\* get_next_key_index: async with key_lock
AcquireLock(r) ==
  /\ pc[r] = "reserve"
  /\ key_lock = 0
  /\ key_lock' = r
  /\ pc' = [pc EXCEPT ![r] = "cs_read"]
  /\ UNCHANGED <<current_key_index, config, endpoint,
                 authorization, request_data, idx, start_key_index, i,
                 last_error_status, last_error_detail, calls, last, branch,
                 open_handles, result, gen, upstream, delivered, prev_start,
                 history>>

\* the body of the critical section waits for key_lock a second time
ReadIndexReacquires(r) ==
  /\ pc[r] = "cs_read"
  /\ key_lock = 0
  /\ idx' = [idx EXCEPT ![r] = current_key_index]
  /\ pc' = [pc EXCEPT ![r] = "cs_write"]
  /\ UNCHANGED <<current_key_index, key_lock, config, endpoint,
                 authorization, request_data, start_key_index, i,
                 last_error_status, last_error_detail, calls, last, branch,
                 open_handles, result, gen, upstream, delivered, prev_start,
                 history>>

\* the value after the advance is taken for the index to return
ReadIndexPostAdvance(r) ==
  /\ pc[r] = "cs_read"
  /\ idx' = [idx EXCEPT ![r] = (current_key_index + 1) % NUM_KEYS]
  /\ pc' = [pc EXCEPT ![r] = "cs_write"]
  /\ UNCHANGED <<current_key_index, key_lock, config, endpoint,
                 authorization, request_data, start_key_index, i,
                 last_error_status, last_error_detail, calls, last, branch,
                 open_handles, result, gen, upstream, delivered, prev_start,
                 history>>

\* idx = current_key_index
ReadIndex(r) ==
  /\ pc[r] = "cs_read"
  /\ idx' = [idx EXCEPT ![r] = current_key_index]
  /\ pc' = [pc EXCEPT ![r] = "cs_write"]
  /\ UNCHANGED <<current_key_index, key_lock, config, endpoint,
                 authorization, request_data, start_key_index, i,
                 last_error_status, last_error_detail, calls, last, branch,
                 open_handles, result, gen, upstream, delivered, prev_start,
                 history>>

\* the lock is kept by the request when get_next_key_index returns
AdvanceAndReturnKeepsLock(r) ==
  /\ pc[r] = "cs_write"
  /\ current_key_index' = NextIndex(current_key_index)
  /\ key_lock' = key_lock
  /\ start_key_index' = [start_key_index EXCEPT ![r] = idx[r]]
  /\ idx' = [idx EXCEPT ![r] = -1]
  /\ prev_start' = idx[r]
  /\ i' = [i EXCEPT ![r] = 0]
  /\ last_error_status' = [last_error_status EXCEPT ![r] = DefaultErrorStatus]
  /\ last_error_detail' = [last_error_detail EXCEPT ![r] = DefaultErrorDetail]
  /\ pc' = [pc EXCEPT ![r] = "attempt"]
  /\ recent_starts' =
       LET all == Append(recent_starts, idx[r])
       IN  IF Len(all) > NUM_KEYS THEN Tail(all) ELSE all
  /\ reservations' = (reservations + 1) % NUM_KEYS
  /\ UNCHANGED <<config, endpoint, authorization, request_data,
                 calls, last, branch, open_handles, result, gen, upstream,
                 delivered, payloads, closes>>

\* the cursor advances, the lock is released and idx becomes the caller's
\* start_key_index; the loop locals are initialised
AdvanceAndReturn(r) ==
  /\ pc[r] = "cs_write"
  /\ current_key_index' = NextIndex(current_key_index)
  /\ key_lock' = 0
  /\ start_key_index' = [start_key_index EXCEPT ![r] = idx[r]]
  /\ idx' = [idx EXCEPT ![r] = -1]
  /\ prev_start' = idx[r]
  /\ i' = [i EXCEPT ![r] = 0]
  /\ last_error_status' = [last_error_status EXCEPT ![r] = DefaultErrorStatus]
  /\ last_error_detail' = [last_error_detail EXCEPT ![r] = DefaultErrorDetail]
  /\ pc' = [pc EXCEPT ![r] = "attempt"]
  /\ recent_starts' =
       LET all == Append(recent_starts, idx[r])
       IN  IF Len(all) > NUM_KEYS THEN Tail(all) ELSE all
  /\ reservations' = (reservations + 1) % NUM_KEYS
  /\ UNCHANGED <<config, endpoint, authorization, request_data,
                 calls, last, branch, open_handles, result, gen, upstream,
                 delivered, payloads, closes>>


\* top of a loop iteration: key_index is computed and the upstream call
\* (client.send / client.post) is issued
SendAttempt(r) ==
  /\ pc[r] = "attempt"
  /\ calls' = [calls EXCEPT ![r] = Append(@, KeyIndex(start_key_index[r], i[r]))]
  /\ pc' = [pc EXCEPT ![r] = "await_upstream"]
  /\ payloads' = [payloads EXCEPT ![r] = Append(@, Sent(request_data[r], i[r]))]
  /\ UNCHANGED <<current_key_index, key_lock, config, endpoint,
                 authorization, request_data, idx, start_key_index, i,
                 last_error_status, last_error_detail, last, branch,
                 open_handles, result, gen, upstream, delivered, prev_start,
                 recent_starts, reservations, closes>>

\* the upstream call ends with outcome o and the rest of the iteration runs
HandleOutcome(r, o) ==
  LET stream == IsStreaming(request_data[r])
      it == Iteration(stream, calls[r][Len(calls[r])], i[r], o,
                      last_error_status[r], last_error_detail[r])
  IN
  /\ pc[r] = "await_upstream"
  /\ o \in Outcomes(stream)
  /\ last' = [last EXCEPT ![r] = o]
  /\ branch' = [branch EXCEPT ![r] =
       IF o.t = "transport" THEN "TransportError" ELSE Branch(o.status)]
  /\ open_handles' = [open_handles EXCEPT ![r] = @ + it.opened]
  \* the loop locals live on only when the loop goes on
  /\ last_error_status' = [last_error_status EXCEPT ![r] =
       IF it.next = "continue" THEN it.les ELSE DefaultErrorStatus]
  /\ last_error_detail' = [last_error_detail EXCEPT ![r] =
       IF it.next = "continue" THEN it.led ELSE DefaultErrorDetail]
  /\ result' = [result EXCEPT ![r] = it.result]
  /\ i' = [i EXCEPT ![r] = IF it.next = "continue" THEN @ + 1 ELSE 0]
  /\ pc' = [pc EXCEPT ![r] =
       CASE it.next = "continue" -> "attempt"
         [] it.next = "return" /\ stream -> "relay"
         [] OTHER -> "done"]
  /\ gen' = [gen EXCEPT ![r] =
       IF it.next = "return" /\ stream THEN "created" ELSE @]
  /\ UNCHANGED <<current_key_index, key_lock, config, endpoint,
                 authorization, request_data, idx, start_key_index, calls,
                 upstream, delivered, prev_start, history>>

\* stream_response_generator: the upstream stream produces its next chunk c
\* and the generator yields it
RelayChunk(r, c) ==
  /\ pc[r] = "relay"
  /\ c = Len(upstream[r]) + 1
  /\ upstream' = [upstream EXCEPT ![r] = Append(@, c)]
  /\ delivered' = [delivered EXCEPT ![r] = Yielded(@, c)]
  /\ gen' = [gen EXCEPT ![r] = "suspended"]
  /\ UNCHANGED <<current_key_index, key_lock, config, pc,
                 endpoint, authorization, request_data, idx, start_key_index,
                 i, last_error_status, last_error_detail, calls, last, branch,
                 open_handles, result, prev_start, history>>

\* the upstream stream ends: the loop is left and finally closes the response
RelayEnd(r) ==
  /\ pc[r] = "relay"
  /\ gen' = [gen EXCEPT ![r] = "finished"]
  /\ open_handles' = [open_handles EXCEPT ![r] = @ - 1]
  /\ pc' = [pc EXCEPT ![r] = "done"]
  /\ closes' = [closes EXCEPT ![r] = @ + 1]
  /\ UNCHANGED <<current_key_index, key_lock, config, endpoint,
                 authorization, request_data, idx, start_key_index, i,
                 last_error_status, last_error_detail, calls, last, branch,
                 result, upstream, delivered, prev_start,
                 recent_starts, reservations, payloads>>

\* a stream error answered by going on to the next key
RelayErrorRetry(r) ==
  /\ pc[r] = "relay"
  /\ gen' = [gen EXCEPT ![r] = "failed"]
  /\ open_handles' = [open_handles EXCEPT ![r] = @ - 1]
  /\ pc' = [pc EXCEPT ![r] =
       IF Len(calls[r]) < NUM_KEYS THEN "attempt" ELSE "done"]
  /\ i' = [i EXCEPT ![r] = IF Len(calls[r]) < NUM_KEYS THEN Len(calls[r]) ELSE @]
  /\ closes' = [closes EXCEPT ![r] = @ + 1]
  /\ UNCHANGED <<current_key_index, key_lock, config, endpoint,
                 authorization, request_data, idx, start_key_index,
                 last_error_status, last_error_detail, calls, last, branch,
                 result, upstream, delivered, prev_start,
                 recent_starts, reservations, payloads>>

\* aiter_bytes raises in the middle of the stream: the except clause logs,
\* finally closes the response and the generator ends
RelayError(r) ==
  /\ pc[r] = "relay"
  /\ gen' = [gen EXCEPT ![r] = "failed"]
  /\ open_handles' = [open_handles EXCEPT ![r] = @ - 1]
  /\ pc' = [pc EXCEPT ![r] = "done"]
  /\ closes' = [closes EXCEPT ![r] = @ + 1]
  /\ UNCHANGED <<current_key_index, key_lock, config, endpoint,
                 authorization, request_data, idx, start_key_index, i,
                 last_error_status, last_error_detail, calls, last, branch,
                 result, upstream, delivered, prev_start,
                 recent_starts, reservations, payloads>>

\* the caller goes away during the relay: a generator suspended at its
\* yield is closed there and its finally runs; one that was never started
\* has no frame to unwind
Disconnect(r) ==
  /\ pc[r] = "relay"
  /\ IF gen[r] = "created"
     THEN /\ gen' = [gen EXCEPT ![r] = "dropped"]
          /\ UNCHANGED <<open_handles, closes>>
     ELSE /\ gen' = [gen EXCEPT ![r] = "cancelled"]
          /\ open_handles' = [open_handles EXCEPT ![r] = @ - 1]
          /\ closes' = [closes EXCEPT ![r] = @ + 1]
  /\ pc' = [pc EXCEPT ![r] = "done"]
  /\ UNCHANGED <<current_key_index, key_lock, config, endpoint,
                 authorization, request_data, idx, start_key_index, i,
                 last_error_status, last_error_detail, calls, last, branch,
                 result, upstream, delivered, prev_start,
                 recent_starts, reservations, payloads>>

\* get_models: client.get is issued with the first key
ModelsSend(r) ==
  /\ pc[r] = "models"
  /\ calls' = [calls EXCEPT ![r] = Append(@, ModelsKey)]
  /\ pc' = [pc EXCEPT ![r] = "await_models"]
  /\ UNCHANGED <<current_key_index, key_lock, config, endpoint,
                 authorization, request_data, idx, start_key_index, i,
                 last_error_status, last_error_detail, last, branch,
                 open_handles, result, gen, upstream, delivered, prev_start,
                 history>>

\* get_models: the call ends with outcome o
ModelsOutcome(r, o) ==
  /\ pc[r] = "await_models"
  /\ last' = [last EXCEPT ![r] = o]
  /\ result' = [result EXCEPT ![r] = ModelsResult(o)]
  /\ pc' = [pc EXCEPT ![r] = "done"]
  /\ UNCHANGED <<current_key_index, key_lock, config, endpoint,
                 authorization, request_data, idx, start_key_index, i,
                 last_error_status, last_error_detail, calls, branch,
                 open_handles, gen, upstream, delivered, prev_start, history>>

\* the exchange is over; the slot serves the next inbound request
Recycle(r) ==
  /\ pc[r] = "done"
  /\ pc' = [pc EXCEPT ![r] = "idle"]
  /\ endpoint' = [endpoint EXCEPT ![r] = "none"]
  /\ request_data' = [request_data EXCEPT ![r] = "none"]
  /\ start_key_index' = [start_key_index EXCEPT ![r] = -1]
  /\ i' = [i EXCEPT ![r] = 0]
  /\ last_error_status' = [last_error_status EXCEPT ![r] = DefaultErrorStatus]
  /\ last_error_detail' = [last_error_detail EXCEPT ![r] = DefaultErrorDetail]
  /\ calls' = [calls EXCEPT ![r] = <<>>]
  /\ last' = [last EXCEPT ![r] = NoOutcome]
  /\ branch' = [branch EXCEPT ![r] = "none"]
  /\ open_handles' = [open_handles EXCEPT ![r] = 0]
  /\ result' = [result EXCEPT ![r] = NoResult]
  /\ gen' = [gen EXCEPT ![r] = "none"]
  /\ upstream' = [upstream EXCEPT ![r] = <<>>]
  /\ delivered' = [delivered EXCEPT ![r] = <<>>]
  /\ payloads' = [payloads EXCEPT ![r] = <<>>]
  /\ closes' = [closes EXCEPT ![r] = 0]
  /\ UNCHANGED <<current_key_index, key_lock, config,
                 authorization, idx, prev_start, recent_starts, reservations>>

Step(r) ==
    \/ ReadRoot(r)
    \/ \E ep \in {"chat", "models"}, h \in Headers : Receive(r, ep, h)
    \/ VerifyToken(r)
    \/ \E raw \in RawBodies : ParseBody(r, raw)
    \/ AcquireLock(r)
    \/ ReadIndex(r)
    \/ AdvanceAndReturn(r)
    \/ SendAttempt(r)
    \/ \E o \in Outcomes(TRUE) \cup Outcomes(FALSE) : HandleOutcome(r, o)
    \/ \E c \in Chunks : RelayChunk(r, c)
    \/ RelayEnd(r)
    \/ RelayError(r)
    \/ Disconnect(r)
    \/ ModelsSend(r)
    \/ \E o \in ModelsOutcomes : ModelsOutcome(r, o)
    \/ Recycle(r)

\* any number of the requests in progress at once
Next == \E r \in Requests : Step(r)

Spec == Init /\ [][Next]_vars

\* the dispatch on its own: clients that send chat requests without an
\* Authorization header (served when no token is configured), and upstream
\* outcomes of every kind the loop tells apart: a transport error, a 200, a
\* 429, and another status whose body can or cannot be read
DispatchOutcomes ==
  {TransportFailure, Response(200, "stream"), Response(200, "json_compact"),
   Response(429, "readable"), Response(429, "error_text"),
   Response(404, "read_error"), Response(404, "error_text")}

DispatchStep(r) ==
    \/ Receive(r, "chat", None)
    \/ VerifyToken(r)
    \/ \E raw \in RawBodies \ {"stream_absent"} : ParseBody(r, raw)
    \/ AcquireLock(r)
    \/ ReadIndex(r)
    \/ AdvanceAndReturn(r)
    \/ SendAttempt(r)
    \/ \E o \in DispatchOutcomes : HandleOutcome(r, o)
    \/ \E c \in Chunks : RelayChunk(r, c)
    \/ RelayEnd(r)
    \/ RelayError(r)
    \/ Disconnect(r)
    \/ Recycle(r)

DispatchNext == \E r \in Requests : DispatchStep(r)

\* scheduling of a dispatch: the event loop runs every coroutine that is
\* ready, so the steps of get_next_key_index and of the loop that wait for
\* nothing are taken; asyncio.Lock wakes its waiters in the order they
\* arrived, so a request that keeps waiting for key_lock gets it; and every
\* upstream call ends, with a response, a transport error or the client's
\* timeout
Fairness(r) ==
  /\ SF_vars(AcquireLock(r))
  /\ WF_vars(ReadIndex(r))
  /\ WF_vars(AdvanceAndReturn(r))
  /\ WF_vars(SendAttempt(r))
  /\ WF_vars(\E o \in DispatchOutcomes : HandleOutcome(r, o))

\* any number of dispatches at once, under that scheduling
FairSpec ==
  Init /\ [][DispatchNext]_vars /\ \A r \in Requests : Fairness(r)

\* one request at a time: a client that waits for each answer
NextSeq == Step(1)

SpecSeq == Init /\ [][NextSeq]_vars


\* ----------------------------------------------------------------- claims
\* a chat request that has reserved its start index
Dispatched(r) == endpoint[r] = "chat" /\ start_key_index[r] # -1
\* TRUE when the request asked for a streamed answer
ModeOf(r) == IsStreaming(request_data[r])
\* the error was raised by the dispatch loop (not by the checks before it)
Escalated(r) == Dispatched(r) /\ result[r].kind = "Error"

\* C1 as stated, a success being any 2xx response: once the latest upstream
\* outcome of a chat request is a 2xx response, the request has returned
\* Completed with that status and no call follows it.
C1_AnySuccessStatusReturns ==
  \A r \in Requests :
    (endpoint[r] = "chat" /\ last[r].t = "resp"
       /\ 200 <= last[r].status /\ last[r].status <= 299)
      => /\ pc[r] \in {"relay", "done"}
         /\ result[r].kind = "Completed"
         /\ result[r].status = last[r].status

\* the compact text of the JSON value a body holds
CompactForm(body) ==
  CASE body \in {"json_compact", "json_spaced"} -> "json_compact"
    [] body = "json_other" -> "json_other"
    [] OTHER -> "none"

\* a response the handler returns to the caller: status 200 and, for a
\* buffered response, a body that is JSON
ReturnedSuccess(r) ==
  /\ last[r].t = "resp"
  /\ last[r].status = 200
  /\ (ModeOf(r) \/ last[r].body \in {"json_compact", "json_spaced", "json_other"})

\* C1 (amended): when the latest upstream outcome of a chat request is a 200
\* response (with a JSON body if buffered), the request has returned
\* Completed with status 200 derived from that response, after at most
\* NUM_KEYS calls; Completed is returned for nothing else; and a request
\* that has returned Completed makes no further upstream call.
C1_FirstSuccessReturns ==
  /\ [](\A r \in Requests :
          endpoint[r] = "chat" =>
            /\ ReturnedSuccess(r) =>
                 /\ pc[r] \in {"relay", "done"}
                 /\ result[r].kind = "Completed"
                 /\ result[r].status = 200
                 /\ result[r].body = IF ModeOf(r) THEN "stream"
                                                    ELSE CompactForm(last[r].body)
                 /\ Len(calls[r]) \in 1..NUM_KEYS
            /\ result[r].kind = "Completed" => ReturnedSuccess(r))
  /\ [][\A r \in Requests :
          (endpoint[r] = "chat" /\ result[r].kind = "Completed")
            => (calls'[r] = calls[r] \/ pc'[r] = "idle")]_vars

\* C1 happens: Completed is returned by the second attempt
C1_Witness ==
  \E r \in Requests :
    /\ endpoint[r] = "chat"
    /\ result[r].kind = "Completed"
    /\ Len(calls[r]) = 2
    /\ branch[r] = "Success"

\* C2: an error escalated by the dispatch loop comes after NUM_KEYS calls and
\* carries the status and detail recorded for the last attempt: 429 for a
\* rate limit, the upstream status s for any other error response, 503 for a
\* transport error.
C2_LastFailureEscalates ==
  \A r \in Requests :
    Escalated(r) =>
      LET key == calls[r][Len(calls[r])] IN
      /\ Len(calls[r]) = NUM_KEYS
      /\ last[r].t = "transport" =>
           result[r] = HTTPException(503,
                         Detail("HTTPX Request Error", key, 503, "ConnectError"))
      /\ (last[r].t = "resp" /\ last[r].status = 429) =>
           result[r] = HTTPException(429,
                         Detail("Rate limit exceeded", key, 429, "none"))
      /\ (last[r].t = "resp" /\ last[r].status # 429
            /\ ~(200 <= last[r].status /\ last[r].status <= 299)
            /\ last[r].body \in {"readable", "error_text"}) =>
           result[r] = HTTPException(last[r].status,
                         Detail("Error with key index", key, last[r].status, "none"))

\* C3: attempt n (0-based) of a dispatch uses key (start + n) mod NUM_KEYS, no
\* key is used twice, and the dispatch loop raises an error to the caller
\* only when all NUM_KEYS keys have been tried.
C3_RoundRobinAttempts ==
  \A r \in Requests :
    Dispatched(r) =>
      /\ Len(calls[r]) <= NUM_KEYS
      /\ \A n \in 1..Len(calls[r]) :
           calls[r][n] = (start_key_index[r] + (n - 1)) % NUM_KEYS
      /\ \A m, n \in 1..Len(calls[r]) : m # n => calls[r][m] # calls[r][n]
      /\ Escalated(r) => Len(calls[r]) = NUM_KEYS

\* C3 happens: a dispatch that started at the last key wrapped around and
\* raised after every key failed
C3_Witness ==
  \E r \in Requests :
    /\ Escalated(r)
    /\ NUM_KEYS > 1
    /\ start_key_index[r] = NUM_KEYS - 1
    /\ Len(calls[r]) = NUM_KEYS

\* C4 as stated: 429 is RateLimited, every 2xx status is Success and returns
\* Completed, every other status is UpstreamError.
C4_Any2xxIsSuccess ==
  \A r \in Requests :
    (endpoint[r] = "chat" /\ last[r].t = "resp") =>
      LET s == last[r].status IN
      /\ s = 429 => branch[r] = "RateLimited"
      /\ (200 <= s /\ s <= 299) => branch[r] = "Success"
      /\ (s # 429 /\ ~(200 <= s /\ s <= 299)) => branch[r] = "UpstreamError"

\* C4 (amended): 429 is RateLimited; 200 is Success, and Completed is
\* returned for it (for a buffered response when its body is JSON); every
\* other status, a 2xx other than 200 included, is UpstreamError.  A rate
\* limit or an upstream error that is not the last attempt's is recorded
\* with its status.  Streaming and non-streaming attempts classify alike.
C4_StatusClassification ==
  \A r \in Requests :
    (endpoint[r] = "chat" /\ last[r].t = "resp") =>
      LET s == last[r].status IN
      /\ s = 429 =>
           /\ branch[r] = "RateLimited"
           /\ pc[r] = "attempt" => last_error_status[r] = 429
      /\ s = 200 =>
           /\ branch[r] = "Success"
           /\ ReturnedSuccess(r) => result[r].kind = "Completed"
      /\ s \notin {200, 429} =>
           /\ branch[r] = "UpstreamError"
           /\ result[r].kind # "Completed"
           /\ (pc[r] = "attempt" /\ last[r].body \in {"readable", "error_text"})
                => last_error_status[r] = s

\* C4 happens: a 201 was classified as an upstream error and the next key
\* is about to be tried, in streaming mode
C4_Witness ==
  \E r \in Requests :
    /\ ModeOf(r)
    /\ last[r].t = "resp" /\ last[r].status = 201
    /\ branch[r] = "UpstreamError"
    /\ pc[r] = "attempt"
    /\ last_error_status[r] = 201


\* the messages of the errors raised before the dispatch
AuthDetails ==
  {"Authorization header missing", "Invalid authorization header format",
   "Invalid authentication scheme", "Invalid authentication token"}
Rejected(r) ==
  /\ result[r].kind = "Error"
  /\ result[r].detail.msg \in AuthDetails \cup {"Invalid JSON body"}

\* C5: a request rejected before the dispatch (401 or 403 from the
\* authentication check of an API endpoint, 400 for a chat body that is no
\* JSON) has made no upstream call and reserved no start index, and the step
\* that rejects it leaves the cursor and its lock as they were.
C5_RejectedBeforeDispatch ==
  /\ [](\A r \in Requests :
          Rejected(r) =>
            /\ calls[r] = <<>>
            /\ start_key_index[r] = -1
            /\ idx[r] = -1
            /\ key_lock # r
            /\ result[r].detail.msg = "Invalid JSON body" =>
                 (result[r].status = 400 /\ endpoint[r] = "chat")
            /\ result[r].detail.msg \in AuthDetails =>
                 (result[r].status \in {401, 403}
                    /\ endpoint[r] \in {"chat", "models"}))
  /\ [][\A r \in Requests :
          (~Rejected(r) /\ Rejected(r)') =>
            /\ current_key_index' = current_key_index
            /\ key_lock' = key_lock
            /\ prev_start' = prev_start]_vars

\* C5 happens: a malformed body was answered 400 after an earlier dispatch
\* had moved the cursor
C5_Witness ==
  \E r \in Requests :
    /\ result[r].status = 400
    /\ result[r].detail.msg = "Invalid JSON body"
    /\ current_key_index = 1

\* a header that is exactly a scheme and a token, the scheme being bearer
WellFormedBearer(h) ==
  /\ h # None
  /\ Len(h) = 2
  /\ h[1] \in {"Bearer", "bearer", "BEARER"}

\* C6: verify_token lets every request pass when ALLOWED_AUTH_TOKENS is
\* empty; otherwise it answers 401 to a missing or malformed header, 403 to
\* a well-formed Bearer header with a token outside the set, and lets a
\* well-formed Bearer header with a token of the set pass.
C6_VerifyTokenOutcome ==
  [][\A r \in Requests :
       (pc[r] = "verify" /\ pc'[r] # "verify") =>
         LET h == authorization[r]
             passes == pc'[r] \in {"parse", "models"} /\ result'[r] = NoResult
             raises(s) == pc'[r] = "done" /\ result'[r].kind = "Error"
                            /\ result'[r].status = s
         IN
         IF ALLOWED_AUTH_TOKENS = {} THEN passes
         ELSE IF ~WellFormedBearer(h) THEN raises(401)
         ELSE IF h[2] \notin ALLOWED_AUTH_TOKENS THEN raises(403)
         ELSE passes]_vars

\* C6 happens: a well-formed Bearer header with an unknown token was
\* answered 403
C6_Witness ==
  \E r \in Requests :
    /\ ALLOWED_AUTH_TOKENS # {}
    /\ result[r].status = 403
    /\ result[r].detail.msg = "Invalid authentication token"

\* C7: once a streaming response has been returned, the request makes no
\* further upstream call, whatever happens to the stream: after an upstream
\* error in the middle of it the request is over, with the chunks forwarded
\* so far and the calls made before the response.
C7_NoRetryAfterStreamSuccess ==
  /\ [](\A r \in Requests :
          gen[r] # "none" =>
            /\ pc[r] \in {"relay", "done"}
            /\ result[r] = Completed(200, "stream")
            /\ gen[r] = "failed" => pc[r] = "done")
  /\ [][\A r \in Requests :
          gen[r] # "none" =>
            \/ pc'[r] = "idle"
            \/ /\ calls'[r] = calls[r]
               /\ result'[r] = result[r]
               /\ pc'[r] \in {"relay", "done"}]_vars

\* C7 happens: the stream failed after its first chunk while a key was
\* still untried
C7_Witness ==
  \E r \in Requests :
    /\ gen[r] = "failed"
    /\ Len(delivered[r]) = 1
    /\ Len(calls[r]) < NUM_KEYS

\* C8: the caller of a streaming response has received exactly the chunks
\* the upstream has produced, in their order and once each; the stream ends
\* for the caller when the upstream one ends or fails.
C8_RelayPreservesChunks ==
  \A r \in Requests :
    gen[r] # "none" =>
      /\ delivered[r] = upstream[r]
      /\ \A k \in 1..Len(delivered[r]) : delivered[r][k] = k
      /\ gen[r] \in {"finished", "failed"} => pc[r] = "done"

\* C8 happens: a stream of two chunks was relayed to its end
C8_Witness ==
  \E r \in Requests :
    /\ gen[r] = "finished"
    /\ upstream[r] = <<1, 2>>
    /\ delivered[r] = <<1, 2>>

\* C9: get_models makes at most one upstream call, with key 0, and reserves
\* nothing; read_root makes none; and the cursor changes only in the step in
\* which a chat request leaves get_next_key_index.
C9_OnlyChatMovesCursor ==
  /\ [](\A r \in Requests :
          /\ endpoint[r] = "models" =>
               /\ calls[r] \in {<<>>, <<0>>}
               /\ start_key_index[r] = -1
               /\ (pc[r] = "done" /\ ~Rejected(r)) => calls[r] = <<0>>
          /\ endpoint[r] = "root" =>
               /\ calls[r] = <<>>
               /\ start_key_index[r] = -1)
  /\ [][current_key_index' # current_key_index =>
          \E r \in Requests :
            /\ endpoint[r] = "chat"
            /\ pc[r] = "cs_write"
            /\ pc'[r] = "attempt"]_vars

\* C9 happens: get_models was answered through key 0 while the cursor
\* pointed at key 1
C9_Witness ==
  \E r \in Requests :
    /\ endpoint[r] = "models"
    /\ pc[r] = "done"
    /\ calls[r] = <<0>>
    /\ current_key_index = 1

\* C10: with more than one key, a reservation never returns the index the
\* reservation before it returned.
C10_ConsecutiveStartsDiffer ==
  [][\A r \in Requests :
       (NUM_KEYS > 1 /\ prev_start # -1
          /\ pc[r] = "cs_write" /\ pc'[r] = "attempt")
         => start_key_index'[r] # prev_start]_vars

\* C10 happens: a failing request whose reservation, the second one of the
\* run, returned index 1
C10_Witness ==
  \E r \in Requests :
    /\ NUM_KEYS > 1
    /\ start_key_index[r] = 1
    /\ prev_start = 1
    /\ Escalated(r)

\* a chat request answered by the buffered (non-streaming) success branch
BufferedSuccess(r) ==
  /\ endpoint[r] = "chat"
  /\ ~ModeOf(r)
  /\ result[r].kind = "Completed"

\* C11 as stated: a non-streaming success carries the upstream's status code
\* and a body that is, byte for byte, the upstream body.
C11_BodyByteIdentical ==
  \A r \in Requests :
    BufferedSuccess(r)
      => /\ result[r].status = last[r].status
         /\ result[r].body = last[r].body

\* C11 (amended): a non-streaming success carries the upstream's status code
\* and a body that holds the same JSON value as the upstream body, written in
\* compact form; it is the upstream body byte for byte only when the upstream
\* body is already in that form.
C11_BodySameJsonValue ==
  \A r \in Requests :
    BufferedSuccess(r)
      => /\ last[r].t = "resp"
         /\ result[r].status = last[r].status
         /\ JsonParse(result[r].body) # "error"
         /\ JsonParse(result[r].body) = JsonParse(last[r].body)
         /\ result[r].body = CompactForm(last[r].body)
         /\ (last[r].body = CompactForm(last[r].body)
               => result[r].body = last[r].body)

\* C11 happens: the upstream body is the second JSON value and the caller
\* has been answered with it
C11_Witness ==
  \E r \in Requests :
    /\ BufferedSuccess(r)
    /\ last[r].body = "json_other"
    /\ result[r].body = "json_other"

\* request r completes its reservation in this step
Reserves(r) == pc[r] = "cs_write" /\ pc'[r] = "attempt"

\* C12: a reservation returns the cursor value from before its advance and
\* leaves the cursor at that value plus one modulo NUM_KEYS; reservations
\* made one after another return consecutive indexes modulo NUM_KEYS, the
\* first of them index 0, so that NUM_KEYS reservations in a row return
\* every index of 0..NUM_KEYS-1 once.
C12_SequentialReservations ==
  /\ [][\A r \in Requests :
          Reserves(r)
            => /\ start_key_index'[r] = current_key_index
               /\ current_key_index' = (start_key_index'[r] + 1) % NUM_KEYS
               /\ (recent_starts = <<>> => start_key_index'[r] = 0)]_vars
  /\ [](\A k \in 1..(Len(recent_starts) - 1) :
          recent_starts[k + 1] = (recent_starts[k] + 1) % NUM_KEYS)
  /\ [](Len(recent_starts) = NUM_KEYS
          => /\ {recent_starts[k] : k \in 1..NUM_KEYS} = 0..(NUM_KEYS - 1)
             /\ \A j, k \in 1..NUM_KEYS :
                  recent_starts[j] = recent_starts[k] => j = k)

\* C12 happens: with two keys, three reservations were made in turn and the
\* last two of them returned 1 and then, after the wrap, 0
C12_Witness ==
  /\ NUM_KEYS = 2
  /\ recent_starts = <<1, 0>>
  /\ current_key_index = 1
  /\ \E r \in Requests : start_key_index[r] = 0 /\ pc[r] = "attempt"

\* request r is inside the body of async with key_lock
InCriticalSection(r) == pc[r] \in {"cs_read", "cs_write"}

\* C13: whatever the interleaving of concurrent reservations, one request at
\* a time is inside the critical section, the value a request has read is
\* still the cursor when it advances it, and so the indexes returned, in the
\* order of the returns, are consecutive modulo NUM_KEYS and the cursor is
\* always one past the index returned last: K reservations started at cursor
\* c return c, ..., c+K-1 and leave the cursor at (c + K) mod NUM_KEYS.
C13_NoLostUpdate ==
  /\ \A r1, r2 \in Requests :
       (InCriticalSection(r1) /\ InCriticalSection(r2)) => r1 = r2
  /\ \A r \in Requests : InCriticalSection(r) <=> key_lock = r
  /\ \A r \in Requests : pc[r] = "cs_write" => idx[r] = current_key_index
  /\ \A k \in 1..(Len(recent_starts) - 1) :
       recent_starts[k + 1] = (recent_starts[k] + 1) % NUM_KEYS
  /\ current_key_index =
       IF recent_starts = <<>> THEN 0
       ELSE (recent_starts[Len(recent_starts)] + 1) % NUM_KEYS

\* C13 happens: two requests are in flight at once, the second one reserved
\* first; they hold the two consecutive indexes 0 and 1 and the cursor has
\* moved by two
C13_Witness ==
  /\ NUM_KEYS = 2
  /\ recent_starts = <<0, 1>>
  /\ start_key_index[2] = 0 /\ pc[2] = "await_upstream"
  /\ start_key_index[1] = 1 /\ pc[1] = "await_upstream"
  /\ current_key_index = 0

\* one of the request's upstream calls, or its stream relay, is in flight
UpstreamInFlight(r) == pc[r] \in {"await_upstream", "relay", "await_models"}

\* C14: key_lock is held by a request only between the entry of the
\* critical section and the return of get_next_key_index, never while one
\* of its upstream calls or its relay is in flight; a request waiting to
\* reserve while another is suspended upstream finds the lock free, or held
\* by a third request that is inside the critical section.
C14_LockOnlyAroundReservation ==
  /\ \A r \in Requests : key_lock = r => InCriticalSection(r)
  /\ \A r \in Requests : UpstreamInFlight(r) => key_lock # r
  /\ \A r1, r2 \in Requests :
       (r1 # r2 /\ UpstreamInFlight(r1) /\ pc[r2] = "reserve")
         => \/ key_lock = 0
            \/ key_lock \notin {r1, r2} /\ InCriticalSection(key_lock)

\* C14 happens: request 1 is in the middle of a stream relay and request 2,
\* which reserved meanwhile, has issued its own upstream call
C14_Witness ==
  /\ pc[1] = "relay" /\ gen[1] = "suspended"
  /\ start_key_index[1] = 0
  /\ pc[2] = "await_upstream"
  /\ start_key_index[2] = 1
  /\ key_lock = 0

\* C15: the cursor is always in 0..NUM_KEYS-1 and equals the number of
\* completed reservations modulo NUM_KEYS; a chat request that reaches
\* dispatch moves it by one step, at its reservation, which it makes once;
\* no other step changes the cursor, whatever the outcome of the request.
C15_CursorCountsReservations ==
  /\ [](/\ current_key_index \in 0..(NUM_KEYS - 1)
        /\ current_key_index = reservations
        /\ \A r \in Requests :
             (pc[r] \in {"attempt", "await_upstream", "relay"}
                \/ (pc[r] = "done" /\ calls[r] # <<>> /\ endpoint[r] = "chat"))
               => Dispatched(r))
  /\ [][\A r \in Requests :
          Reserves(r)
            => /\ current_key_index' = (current_key_index + 1) % NUM_KEYS
               /\ endpoint[r] = "chat"
               /\ start_key_index[r] = -1]_vars
  /\ [][(\A r \in Requests : ~Reserves(r))
          => current_key_index' = current_key_index]_vars
  /\ [][\A r \in Requests :
          Dispatched(r)
            => pc'[r] \notin {"reserve", "cs_read", "cs_write"}]_vars

\* C15 happens: with two keys, a dispatch that the caller abandoned during
\* the relay is the latest of an odd number of reservations and the cursor,
\* one step past its start index 0, has not been moved back
C15_Witness ==
  \E r \in Requests :
    /\ NUM_KEYS = 2
    /\ Dispatched(r)
    /\ gen[r] \in {"cancelled", "dropped"}
    /\ start_key_index[r] = 0
    /\ Len(recent_starts) = 2
    /\ reservations = 1
    /\ current_key_index = 1

\* the relay of a streaming success is over, whichever way it ended
RelayOver(r) == gen[r] \in {"finished", "failed", "cancelled", "dropped"}

\* C16: the upstream response handed to the relay is closed once on every
\* exit path of the relay (end of the stream, error in the middle of it,
\* caller gone at any point, before the first chunk included): it is never
\* closed twice and, once the relay is over, it has been closed.
C16_HandleClosedExactlyOnce ==
  \A r \in Requests :
    /\ closes[r] <= 1
    /\ RelayOver(r) => closes[r] = 1

\* C17: the body of a chat request is parsed once, before its first
\* attempt, and every attempt of the dispatch sends that parsed payload, in
\* the mode its "stream" field selected: the payload and mode of attempt k
\* equal those of attempt 1 for every k.
C17_SamePayloadEveryAttempt ==
  /\ [](\A r \in Requests :
          endpoint[r] = "chat"
            => /\ Len(payloads[r]) = Len(calls[r])
               /\ \A k \in 1..Len(payloads[r]) :
                    /\ payloads[r][k] = payloads[r][1]
                    /\ payloads[r][k].payload = request_data[r]
                    /\ payloads[r][k].stream = (request_data[r] = "stream_true")
               /\ result[r].kind = "Completed"
                    => (result[r].body = "stream") = payloads[r][1].stream)
  /\ [][\A r \in Requests :
          request_data'[r] # request_data[r]
            => \/ /\ pc[r] = "parse"
                  /\ request_data[r] = "none"
                  /\ calls[r] = <<>>
               \/ pc'[r] = "idle"]_vars

\* C17 happens: a streaming request whose first attempt failed has sent its
\* payload a second time
C17_Witness ==
  \E r \in Requests :
    /\ Len(payloads[r]) = 2
    /\ payloads[r][2] = [payload |-> "stream_true", stream |-> TRUE]
    /\ pc[r] = "await_upstream"
    /\ branch[r] = "RateLimited"

\* C18: in streaming mode the response opened by a failed attempt is closed
\* before the next attempt begins and before an error is returned: a request
\* never holds more than one open upstream response, holds none when an
\* attempt is about to be made, and holds none once it has been answered
\* with an error.
C18_FailedAttemptHandleClosed ==
  \A r \in Requests :
    /\ open_handles[r] <= 1
    /\ pc[r] = "attempt" => open_handles[r] = 0
    /\ result[r].kind = "Error" => open_handles[r] = 0

\* the caller of a dispatched chat request has its answer: the response
\* object of a success or the final error
Answered(r) == Dispatched(r) /\ result[r].kind \in {"Completed", "Error"}

\* C19: under the scheduling of FairSpec, a chat request that reaches
\* dispatch gets key_lock and then gets its answer; the answer is given
\* after at least one and at most NUM_KEYS upstream calls and, once given,
\* is not replaced by another.
C19_DispatchTerminates ==
  /\ \A r \in Requests : (pc[r] = "reserve") ~> InCriticalSection(r)
  /\ \A r \in Requests : (pc[r] = "reserve") ~> Answered(r)
  /\ [](\A r \in Requests :
          /\ Answered(r) => Len(calls[r]) \in 1..NUM_KEYS
          /\ (Dispatched(r) /\ ~Answered(r)) => Len(calls[r]) \in 0..NUM_KEYS)
  /\ [][\A r \in Requests :
          Answered(r)
            => \/ result'[r] = result[r] /\ calls'[r] = calls[r]
               \/ pc'[r] = "idle"]_vars

\* C19 happens: request 2 has its final error after two upstream calls made
\* while request 1 was waiting for key_lock
C19_Witness ==
  /\ NUM_KEYS = 2
  /\ pc[1] = "reserve"
  /\ Answered(2)
  /\ result[2].kind = "Error"
  /\ Len(calls[2]) = 2

====
